---- MODULE Spec2Model ----
(***************************************************************************)
(* State-machine model of the social backend: the users router (follow /   *)
(* unfollow), the auth router (register), the tweets router and the        *)
(* comments router, over a document store with per-document atomic         *)
(* operations.  Every await of a handler is one step of the model, so      *)
(* handlers of different requests interleave exactly at their awaits.      *)
(***************************************************************************)
EXTENDS Integers, Sequences, FiniteSets

VARIABLES users, tweets, comments, nextId, reqs

vars == <<users, tweets, comments, nextId, reqs>>

-----------------------------------------------------------------------------
(* Bounds of the model *)

\* number of requests to the users and auth routers in one behaviour
MaxReq == 3
\* number of requests to the tweets and comments routers in one behaviour
MaxContentReq == 2
\* number of requests in one behaviour when each runs to completion alone
MaxSerialReq == 3
\* number of user identifiers that may be named in a path parameter
MaxUsers == 2
\* number of profile updates in one behaviour
MaxProfileReq == 1
\* number of requests in one behaviour of all endpoints that answer with user data
MaxBodyReq == 2
\* number of tweets in the store of the global listing
MaxTweets == 22
\* number of listing requests in one behaviour
MaxListReq == 1

-----------------------------------------------------------------------------
(* Identifiers and their string forms *)

UserIds == 1..MaxUsers

\* An ObjectId renders as 24 lowercase hex digits; the same 12 bytes are also
\* written with uppercase digits, and the store's cast accepts both.
Forms == {"lower", "upper"}

\* ObjectId.prototype.toString(): always the lowercase rendering
ToString(id) == <<id, "lower">>

\* the cast mongoose applies to a string used where the schema wants an ObjectId
CastObjectId(str) == str[1]

\* MongooseArray.prototype.includes(string): obj == this[i], i.e. the string is
\* compared with each element's toString()
IncludesStr(arr, str) == \E i \in 1..Len(arr) : ToString(arr[i]) = str

\* MongooseArray.prototype.includes(ObjectId): the argument is rendered first
IncludesId(arr, id) == IncludesStr(arr, ToString(id))

RECURSIVE Without(_, _)
\* $pull / Array.prototype.filter: every occurrence of id removed, order kept
Without(arr, id) ==
    IF arr = <<>> THEN <<>>
    ELSE IF Head(arr) = id THEN Without(Tail(arr), id)
         ELSE <<Head(arr)>> \o Without(Tail(arr), id)

Range(arr) == {arr[i] : i \in 1..Len(arr)}

Count(arr, x) == Cardinality({i \in 1..Len(arr) : arr[i] = x})

\* a query without .limit(n)
Unlimited(s, n) == s

\* .limit(n)
Limit(s, n) == SubSeq(s, 1, IF Len(s) < n THEN Len(s) ELSE n)

-----------------------------------------------------------------------------
(* Requests *)

NoDoc == [user |-> 0, tweet |-> 0, likes |-> <<>>, comments |-> <<>>, v |-> 0]

NewReq(kind, caller, id, pc) ==
    [kind |-> kind, pc |-> pc, caller |-> caller, id |-> id, status |-> 0,
     username |-> "", email |-> "", matches |-> FALSE, len |-> 0, image |-> FALSE,
     patch |-> [f \in {} |-> ""],
     path |-> <<>>, currentUser |-> <<>>, doc |-> NoDoc, newId |-> 0,
     result |-> <<>>, fields |-> {}]

Respond(r, code) == [r EXCEPT !.pc = "done", !.status = code]

InFlight(i) == reqs[i].pc # "done"

Quiescent == \A i \in 1..Len(reqs) : ~InFlight(i)

\* a request arrives: requests are kept in arrival order, at most max of them
Arrive(max, r) == /\ Len(reqs) < max
                  /\ reqs' = Append(reqs, r)

\* protect: the bearer token resolves to a live user record
Authenticated(u) == u \in DOMAIN users

-----------------------------------------------------------------------------
(* POST /api/auth/register *)

Usernames == {"ann", "bob"}
Emails == {"ann@x", "bob@x"}

\* check('username').not().isEmpty(), check('email').isEmail()
ValidRegistration(username, email) == username # "" /\ email \in Emails

\* User.findOne({ email }), User.findOne({ username })
FindByEmail(email) == {u \in DOMAIN users : users[u].email = email}
FindByUsername(username) == {u \in DOMAIN users : users[u].username = username}

\* the unique indexes of the User schema on username and email
UniqueIndexAdmits(username, email) ==
    FindByEmail(email) = {} /\ FindByUsername(username) = {}

\* the fields PUT /api/users writes: text fields of the body and uploaded files
TextFields == {"name", "bio", "location", "website"}

FileFields == {"profilePicture", "coverPhoto"}

ProfileFields == TextFields \cup FileFields

\* user = new User({ name, username, email, password }): the other profile
\* fields start empty
NewUser(username, email) ==
    [username |-> username, email |-> email, following |-> <<>>, followers |-> <<>>,
     profile |-> [f \in ProfileFields |-> IF f = "name" THEN "name" ELSE ""]]

\* the user object of the register and login responses
PublicProfile ==
    {"_id", "name", "username", "email", "profilePicture", "bio", "followers",
     "following", "isVerified"}

RegisterArrive(max) ==
    \E username \in Usernames \cup {""}, email \in Emails :
        /\ Arrive(max, IF ValidRegistration(username, email)
                       THEN [NewReq("register", 0, <<0, "lower">>, "findEmail")
                                EXCEPT !.username = username, !.email = email]
                       ELSE Respond([NewReq("register", 0, <<0, "lower">>, "findEmail")
                                EXCEPT !.username = username, !.email = email], 400))
        /\ UNCHANGED <<users, tweets, comments, nextId>>

EmailTaken(r) == FindByEmail(r.email) # {}

RegisterFindEmail(i) ==
    /\ reqs[i].kind = "register" /\ reqs[i].pc = "findEmail"
    /\ reqs' = [reqs EXCEPT ![i] = IF EmailTaken(reqs[i])
                                   THEN Respond(reqs[i], 400)
                                   ELSE [reqs[i] EXCEPT !.pc = "findUsername"]]
    /\ UNCHANGED <<users, tweets, comments, nextId>>

UsernameTaken(r) == FindByUsername(r.username) # {}

RegisterFindUsername(i) ==
    /\ reqs[i].kind = "register" /\ reqs[i].pc = "findUsername"
    /\ reqs' = [reqs EXCEPT ![i] = IF UsernameTaken(reqs[i])
                                   THEN Respond(reqs[i], 400)
                                   ELSE [reqs[i] EXCEPT !.pc = "save"]]
    /\ UNCHANGED <<users, tweets, comments, nextId>>

RegisterSave(i) ==
    /\ reqs[i].kind = "register" /\ reqs[i].pc = "save"
    /\ IF UniqueIndexAdmits(reqs[i].username, reqs[i].email)
       THEN /\ users' = [u \in DOMAIN users \cup {nextId.user} |->
                            IF u = nextId.user
                            THEN NewUser(reqs[i].username, reqs[i].email)
                            ELSE users[u]]
            /\ nextId' = [nextId EXCEPT !.user = @ + 1]
            /\ reqs' = [reqs EXCEPT ![i] = [Respond(reqs[i], 201) EXCEPT
                                                !.newId = nextId.user,
                                                !.fields = PublicProfile]]
       ELSE /\ reqs' = [reqs EXCEPT ![i] = Respond(reqs[i], 500)]
            /\ UNCHANGED <<users, nextId>>
    /\ UNCHANGED <<tweets, comments>>

-----------------------------------------------------------------------------
(* POST /api/auth/login *)

\* check('email').isEmail(), check('password').exists()
ValidLogin(email, hasPassword) == email \in Emails /\ hasPassword

\* matches: whether user.matchPassword(password) will hold for the password
\* the request carries
LoginArrive(max) ==
    \E email \in Emails \cup {"nomail"}, hasPassword \in BOOLEAN, matches \in BOOLEAN :
        /\ hasPassword \/ ~matches
        /\ Arrive(max, IF ValidLogin(email, hasPassword)
                       THEN [NewReq("login", 0, <<0, "lower">>, "findEmail")
                                EXCEPT !.email = email, !.matches = matches]
                       ELSE Respond([NewReq("login", 0, <<0, "lower">>, "findEmail")
                                EXCEPT !.email = email, !.matches = matches], 400))
        /\ UNCHANGED <<users, tweets, comments, nextId>>

\* const user = await User.findOne({ email })
LoginFindEmail(i) ==
    /\ reqs[i].kind = "login" /\ reqs[i].pc = "findEmail"
    /\ reqs' = [reqs EXCEPT ![i] = IF FindByEmail(reqs[i].email) = {}
                                   THEN Respond(reqs[i], 400)
                                   ELSE [reqs[i] EXCEPT !.pc = "match"]]
    /\ UNCHANGED <<users, tweets, comments, nextId>>

\* const isMatch = await user.matchPassword(password)
LoginMatch(i) ==
    /\ reqs[i].kind = "login" /\ reqs[i].pc = "match"
    /\ reqs' = [reqs EXCEPT ![i] = IF ~reqs[i].matches
                                   THEN Respond(reqs[i], 400)
                                   ELSE [Respond(reqs[i], 200) EXCEPT !.fields = PublicProfile]]
    /\ UNCHANGED <<users, tweets, comments, nextId>>

-----------------------------------------------------------------------------
(* POST /api/users/:id/follow *)

\* req.params.id === req.user._id.toString()
IsSelf(param, caller) == param = ToString(caller)

FollowArrive(max) ==
    \E caller \in DOMAIN users, target \in UserIds, form \in Forms :
        /\ Authenticated(caller)
        /\ Arrive(max, IF IsSelf(<<target, form>>, caller)
                       THEN Respond(NewReq("follow", caller, <<target, form>>, "findTarget"), 400)
                       ELSE NewReq("follow", caller, <<target, form>>, "findTarget"))
        /\ UNCHANGED <<users, tweets, comments, nextId>>

FollowFindTarget(i) ==
    /\ reqs[i].kind = "follow" /\ reqs[i].pc = "findTarget"
    /\ LET t == CastObjectId(reqs[i].id)
       IN reqs' = [reqs EXCEPT ![i] =
                     IF t \notin DOMAIN users
                     THEN Respond(reqs[i], 404)
                     ELSE [reqs[i] EXCEPT !.pc = "findCurrent"]]
    /\ UNCHANGED <<users, tweets, comments, nextId>>

\* currentUser.following.includes(req.params.id)
AlreadyFollowing(r) == IncludesStr(r.currentUser, r.id)

FollowFindCurrent(i) ==
    /\ reqs[i].kind = "follow" /\ reqs[i].pc = "findCurrent"
    /\ reqs' = [reqs EXCEPT ![i] = [reqs[i] EXCEPT !.pc = "updateCurrent",
                                       !.currentUser = users[reqs[i].caller].following]]
    /\ UNCHANGED <<users, tweets, comments, nextId>>

\* $pull: { following: req.params.id } / $push: { following: req.params.id }
UpdatedFollowing(r, following) ==
    IF AlreadyFollowing(r)
    THEN Without(following, CastObjectId(r.id))
    ELSE Append(following, CastObjectId(r.id))

\* $pull: { followers: req.user._id } / $push: { followers: req.user._id }
UpdatedFollowers(r, followers) ==
    IF AlreadyFollowing(r)
    THEN Without(followers, r.caller)
    ELSE Append(followers, r.caller)

FollowUpdateCurrent(i) ==
    /\ reqs[i].kind = "follow" /\ reqs[i].pc = "updateCurrent"
    /\ users' = [users EXCEPT ![reqs[i].caller].following = UpdatedFollowing(reqs[i], @)]
    /\ reqs' = [reqs EXCEPT ![i] = [reqs[i] EXCEPT !.pc = "updateTarget"]]
    /\ UNCHANGED <<tweets, comments, nextId>>

FollowUpdateTarget(i) ==
    /\ reqs[i].kind = "follow" /\ reqs[i].pc = "updateTarget"
    /\ users' = [users EXCEPT ![CastObjectId(reqs[i].id)].followers =
                                  UpdatedFollowers(reqs[i], @)]
    /\ reqs' = [reqs EXCEPT ![i] = Respond(reqs[i], 200)]
    /\ UNCHANGED <<tweets, comments, nextId>>

FollowAwaits == {"findTarget", "findCurrent", "updateCurrent", "updateTarget"}

\* a failed store operation whose handler puts back what the request wrote
FollowStoreFailsAndUndoes(i) ==
    /\ reqs[i].kind = "follow" /\ reqs[i].pc \in FollowAwaits
    /\ users' = IF reqs[i].pc = "updateTarget"
                THEN [users EXCEPT ![reqs[i].caller].following = reqs[i].currentUser]
                ELSE users
    /\ reqs' = [reqs EXCEPT ![i] = Respond(reqs[i], 500)]
    /\ UNCHANGED <<tweets, comments, nextId>>

\* the store operation a follow request awaits rejects (the store is
\* unreachable): catch (error) { res.status(500).json(...) }
FollowStoreFails(i) ==
    /\ reqs[i].kind = "follow" /\ reqs[i].pc \in FollowAwaits
    /\ reqs' = [reqs EXCEPT ![i] = Respond(reqs[i], 500)]
    /\ UNCHANGED <<users, tweets, comments, nextId>>

-----------------------------------------------------------------------------
(* The users router: dispatch, GET /me, GET /:username, GET /suggestions *)

\* the fields of a user record a response body may carry
UserFields ==
    {"_id", "name", "username", "email", "password", "profilePicture",
     "coverPhoto", "bio", "location", "website", "followers", "following",
     "isVerified", "createdAt"}

\* a query without a projection returns every field
SelectAll(excluded) == UserFields

\* .select('-password'): every field but the excluded ones
SelectWithout(excluded) == UserFields \ excluded

\* .select('a b c') and .populate(path, 'a b c'): the named fields and _id
SelectOnly(named) == (named \cup {"_id"}) \cap UserFields

\* router.get('/me'), router.get('/:username'), router.put('/'),
\* router.post('/:id/follow'), router.get('/suggestions'), in this order
UsersRoutes ==
    << [method |-> "GET",  path |-> <<"me">>,            handler |-> "me"],
       [method |-> "GET",  path |-> <<":username">>,     handler |-> "username"],
       [method |-> "PUT",  path |-> << >>,               handler |-> "put"],
       [method |-> "POST", path |-> <<":id", "follow">>, handler |-> "follow"],
       [method |-> "GET",  path |-> <<"suggestions">>,   handler |-> "suggestions"] >>

PathParams == {":username", ":id"}

RouteMatches(route, method, path) ==
    /\ route.method = method
    /\ Len(route.path) = Len(path)
    /\ \A k \in 1..Len(path) : route.path[k] \in PathParams \/ route.path[k] = path[k]

\* the router runs the first route, in registration order, that matches;
\* none of the handlers calls next()
Dispatch(method, path) ==
    LET matching == {k \in DOMAIN UsersRoutes : RouteMatches(UsersRoutes[k], method, path)}
    IN IF matching = {} THEN "none"
       ELSE UsersRoutes[CHOOSE k \in matching : \A o \in matching : k <= o].handler

\* .limit(5) of the suggestions
SuggestionsLimit == 5

\* documents in the order the store returns them without a sort
RECURSIVE Ascending(_)
Ascending(ids) ==
    IF ids = {} THEN << >>
    ELSE LET first == CHOOSE u \in ids : \A o \in ids : u <= o
         IN <<first>> \o Ascending(ids \ {first})

\* the one-segment GET paths of the users router that clients use
GetSegments == {"me", "suggestions"} \cup Usernames

UsersGetArrive(max) ==
    \E caller \in DOMAIN users, seg \in GetSegments :
        /\ Authenticated(caller)
        /\ Arrive(max, [NewReq(Dispatch("GET", <<seg>>), caller, <<0, "lower">>,
                               IF Dispatch("GET", <<seg>>) = "suggestions"
                               THEN "findUser" ELSE "find")
                          EXCEPT !.path = <<seg>>])
        /\ UNCHANGED <<users, tweets, comments, nextId>>

\* User.findById(req.user._id).select('-password').populate(...)
MeFind(i) ==
    /\ reqs[i].kind = "me" /\ reqs[i].pc = "find"
    /\ reqs' = [reqs EXCEPT ![i] =
                  IF reqs[i].caller \notin DOMAIN users
                  THEN Respond(reqs[i], 404)
                  ELSE [Respond(reqs[i], 200) EXCEPT
                           !.result = <<reqs[i].caller>>,
                           !.fields = SelectWithout({"password"}) \cup
                                      SelectOnly({"name", "username", "profilePicture"})]]
    /\ UNCHANGED <<users, tweets, comments, nextId>>

\* User.findOne({ username: req.params.username }).select('-password').populate(...)
UsernameFind(i) ==
    /\ reqs[i].kind = "username" /\ reqs[i].pc = "find"
    /\ LET found == FindByUsername(reqs[i].path[1])
       IN reqs' = [reqs EXCEPT ![i] =
                     IF found = {}
                     THEN Respond(reqs[i], 404)
                     ELSE [Respond(reqs[i], 200) EXCEPT
                              !.result = <<CHOOSE u \in found : \A o \in found : u <= o>>,
                              !.fields = SelectWithout({"password"}) \cup
                                         SelectOnly({"name", "username", "profilePicture"})]]
    /\ UNCHANGED <<users, tweets, comments, nextId>>

\* const currentUser = await User.findById(req.user._id)
SuggestionsFindUser(i) ==
    /\ reqs[i].kind = "suggestions" /\ reqs[i].pc = "findUser"
    /\ reqs' = [reqs EXCEPT ![i] =
                  [reqs[i] EXCEPT !.pc = "find",
                                  !.currentUser = users[reqs[i].caller].following]]
    /\ UNCHANGED <<users, tweets, comments, nextId>>

\* { _id: { $ne: req.user._id, $nin: currentUser.following } }
Suggested(caller, following) ==
    {u \in DOMAIN users : u # caller /\ ~IncludesId(following, u)}

\* User.find({...}).select('_id name username profilePicture').limit(5)
SuggestionsFind(i) ==
    /\ reqs[i].kind = "suggestions" /\ reqs[i].pc = "find"
    /\ reqs' = [reqs EXCEPT ![i] =
                  [Respond(reqs[i], 200) EXCEPT
                      !.result = Limit(Ascending(Suggested(reqs[i].caller,
                                                           reqs[i].currentUser)),
                                       SuggestionsLimit),
                      !.fields = SelectOnly({"name", "username", "profilePicture"})]]
    /\ UNCHANGED <<users, tweets, comments, nextId>>

\* the bodies and uploads of PUT /: any text field may be absent, empty or
\* filled; an uploaded file has a path
Patches(supplies) ==
    {[f \in supplied |-> IF f \in FileFields THEN "path" ELSE texts[f]] :
        supplied \in supplies, texts \in [TextFields -> {"", "new"}]}

ProfileArrive(max, supplies) ==
    \E caller \in DOMAIN users, patch \in Patches(supplies) :
        /\ Authenticated(caller)
        /\ Arrive(max, [NewReq("put", caller, <<0, "lower">>, "update") EXCEPT !.patch = patch])
        /\ UNCHANGED <<users, tweets, comments, nextId>>

\* if (name) userFields.name = name; ... if (req.files && req.files.x)
\* userFields.x = req.files.x[0].path
BuildUserFields(patch) ==
    {f \in DOMAIN patch : patch[f] # ""}

\* User.findByIdAndUpdate(req.user._id, { $set: userFields }, { new: true })
\*     .select('-password')
ProfileUpdate(i) ==
    /\ reqs[i].kind = "put" /\ reqs[i].pc = "update"
    /\ users' = [users EXCEPT ![reqs[i].caller].profile =
                    [f \in ProfileFields |->
                        IF f \in BuildUserFields(reqs[i].patch) THEN reqs[i].patch[f] ELSE @[f]]]
    /\ reqs' = [reqs EXCEPT ![i] =
                  [Respond(reqs[i], 200) EXCEPT !.result = <<reqs[i].caller>>,
                                                !.fields = SelectWithout({"password"})]]
    /\ UNCHANGED <<tweets, comments, nextId>>

\* the step of the GET handler the router dispatched the request to
UsersGetStep(i) ==
    MeFind(i) \/ UsernameFind(i) \/ SuggestionsFindUser(i) \/ SuggestionsFind(i)

-----------------------------------------------------------------------------
(* Specifications of the users and auth routers *)

InitEmpty ==
    /\ users = << >>
    /\ tweets = << >>
    /\ comments = << >>
    /\ nextId = [user |-> 1, tweet |-> 1, comment |-> 1, time |-> 0]
    /\ reqs = << >>

\* two users registered one after the other, no edge yet
InitGraph ==
    /\ users = [u \in {1, 2} |-> IF u = 1 THEN NewUser("ann", "ann@x")
                                           ELSE NewUser("bob", "bob@x")]
    /\ tweets = << >>
    /\ comments = << >>
    /\ nextId = [user |-> 3, tweet |-> 1, comment |-> 1, time |-> 0]
    /\ reqs = << >>

NextRegister ==
    \/ RegisterArrive(MaxReq)
    \/ \E i \in 1..Len(reqs) : RegisterFindEmail(i)
    \/ \E i \in 1..Len(reqs) : RegisterFindUsername(i)
    \/ \E i \in 1..Len(reqs) : RegisterSave(i)

NextFollow ==
    \/ FollowArrive(MaxReq)
    \/ \E i \in 1..Len(reqs) : FollowFindTarget(i)
    \/ \E i \in 1..Len(reqs) : FollowFindCurrent(i)
    \/ \E i \in 1..Len(reqs) : FollowUpdateCurrent(i)
    \/ \E i \in 1..Len(reqs) : FollowUpdateTarget(i)

\* a request arrives only when no request is in flight: requests run one
\* after the other, each to completion
NextFollowSerial ==
    \/ Quiescent /\ FollowArrive(MaxSerialReq)
    \/ \E i \in 1..Len(reqs) : FollowFindTarget(i)
    \/ \E i \in 1..Len(reqs) : FollowFindCurrent(i)
    \/ \E i \in 1..Len(reqs) : FollowUpdateCurrent(i)
    \/ \E i \in 1..Len(reqs) : FollowUpdateTarget(i)

Next == NextRegister \/ NextFollow

Spec == InitEmpty /\ [][Next]_vars

SpecGraph == InitGraph /\ [][NextFollow]_vars

\* follow requests one at a time over a store whose operations may fail
NextFollowFaulty ==
    \/ Quiescent /\ FollowArrive(MaxSerialReq)
    \/ \E i \in 1..Len(reqs) : FollowFindTarget(i)
    \/ \E i \in 1..Len(reqs) : FollowFindCurrent(i)
    \/ \E i \in 1..Len(reqs) : FollowUpdateCurrent(i)
    \/ \E i \in 1..Len(reqs) : FollowUpdateTarget(i)
    \/ \E i \in 1..Len(reqs) : FollowStoreFails(i)

SpecGraphFaulty == InitGraph /\ [][NextFollowFaulty]_vars

NextUsersGet ==
    \/ UsersGetArrive(MaxContentReq)
    \/ \E i \in 1..Len(reqs) : UsersGetStep(i)

SpecUsersGet == InitGraph /\ [][NextUsersGet]_vars

\* two users whose profile fields all have a value
InitProfile ==
    /\ users = [u \in {1, 2} |->
                  [(IF u = 1 THEN NewUser("ann", "ann@x") ELSE NewUser("bob", "bob@x"))
                      EXCEPT !.profile = [f \in ProfileFields |-> "old"],
                             !.following = <<3 - u>>, !.followers = <<3 - u>>]]
    /\ tweets = << >>
    /\ comments = << >>
    /\ nextId = [user |-> 3, tweet |-> 1, comment |-> 1, time |-> 0]
    /\ reqs = << >>

NextProfile ==
    \/ ProfileArrive(MaxProfileReq, SUBSET ProfileFields)
    \/ \E i \in 1..Len(reqs) : ProfileUpdate(i)

SpecProfile == InitProfile /\ [][NextProfile]_vars

SpecGraphSerial == InitGraph /\ [][NextFollowSerial]_vars

-----------------------------------------------------------------------------
(* The document store of tweets and comments *)

\* Model.findById(id): the id string is cast, the stored document is copied
TweetDoc(t) == [user |-> tweets[t].user, tweet |-> 0, likes |-> tweets[t].likes,
                comments |-> tweets[t].comments, v |-> tweets[t].v]

CommentDoc(c) == [user |-> comments[c].user, tweet |-> comments[c].tweet,
                  likes |-> comments[c].likes, comments |-> <<>>, v |-> comments[c].v]

\* the path parameters a client may send: identifiers the store has issued, and
\* the next one, which names no document yet
TweetParams == {<<t, "lower">> : t \in 1..nextId.tweet}
CommentParams == {<<c, "lower">> : c \in 1..nextId.comment}

\* the toggle with an unlike branch that filters nothing out (ObjectIds
\* compared by reference instead of by their strings)
ToggledLikesKeepsAll(likes, caller) ==
    IF IncludesId(likes, caller) THEN likes ELSE <<caller>> \o likes

\* the toggle without the membership test: the caller is always inserted
ToggledLikesNoCheck(likes, caller) == <<caller>> \o likes

\* likes.includes(req.user._id) ? likes.filter(like => like.toString() !==
\* req.user._id.toString()) : likes.unshift(req.user._id)
ToggledLikes(likes, caller) ==
    IF IncludesId(likes, caller)
    THEN Without(likes, caller)
    ELSE <<caller>> \o likes

\* a save whose update does not carry the loaded version in its filter
SaveAdmitsAnyVersion(coll, id, doc) == id \in DOMAIN coll

\* document.save() of a document whose array was replaced or unshifted: the
\* update carries the loaded version (__v) in its filter and increments it, so
\* it applies only to the version that was loaded
SaveAdmits(coll, id, doc) == id \in DOMAIN coll /\ coll[id].v = doc.v

\* the ownership check left out
IsOwnerAlways(doc, caller) == TRUE

\* tweet.user.toString() !== req.user._id.toString()
IsOwner(doc, caller) == ToString(doc.user) = ToString(caller)

Remove(coll, ids) == [x \in DOMAIN coll \ ids |-> coll[x]]

-----------------------------------------------------------------------------
(* POST /api/tweets/:id/like *)

LikeTweetArrive(max) ==
    \E caller \in DOMAIN users, id \in TweetParams :
        /\ Authenticated(caller)
        /\ Arrive(max, NewReq("likeTweet", caller, id, "find"))
        /\ UNCHANGED <<users, tweets, comments, nextId>>

LikeTweetFind(i) ==
    /\ reqs[i].kind = "likeTweet" /\ reqs[i].pc = "find"
    /\ LET t == CastObjectId(reqs[i].id)
       IN reqs' = [reqs EXCEPT ![i] =
                     IF t \notin DOMAIN tweets
                     THEN Respond(reqs[i], 404)
                     ELSE [reqs[i] EXCEPT !.pc = "save", !.doc = TweetDoc(t)]]
    /\ UNCHANGED <<users, tweets, comments, nextId>>

LikeTweetSave(i) ==
    /\ reqs[i].kind = "likeTweet" /\ reqs[i].pc = "save"
    /\ LET t == CastObjectId(reqs[i].id)
       IN IF SaveAdmits(tweets, t, reqs[i].doc)
          THEN /\ tweets' = [tweets EXCEPT
                               ![t].likes = ToggledLikes(reqs[i].doc.likes, reqs[i].caller),
                               ![t].v = @ + 1]
               /\ reqs' = [reqs EXCEPT ![i] = Respond(reqs[i], 200)]
          ELSE /\ reqs' = [reqs EXCEPT ![i] = Respond(reqs[i], 500)]
               /\ UNCHANGED tweets
    /\ UNCHANGED <<users, comments, nextId>>

-----------------------------------------------------------------------------
(* POST /api/comments/:id/like *)

LikeCommentArrive(max) ==
    \E caller \in DOMAIN users, id \in CommentParams :
        /\ Authenticated(caller)
        /\ Arrive(max, NewReq("likeComment", caller, id, "find"))
        /\ UNCHANGED <<users, tweets, comments, nextId>>

LikeCommentFind(i) ==
    /\ reqs[i].kind = "likeComment" /\ reqs[i].pc = "find"
    /\ LET c == CastObjectId(reqs[i].id)
       IN reqs' = [reqs EXCEPT ![i] =
                     IF c \notin DOMAIN comments
                     THEN Respond(reqs[i], 404)
                     ELSE [reqs[i] EXCEPT !.pc = "save", !.doc = CommentDoc(c)]]
    /\ UNCHANGED <<users, tweets, comments, nextId>>

LikeCommentSave(i) ==
    /\ reqs[i].kind = "likeComment" /\ reqs[i].pc = "save"
    /\ LET c == CastObjectId(reqs[i].id)
       IN IF SaveAdmits(comments, c, reqs[i].doc)
          THEN /\ comments' = [comments EXCEPT
                               ![c].likes = ToggledLikes(reqs[i].doc.likes, reqs[i].caller),
                               ![c].v = @ + 1]
               /\ reqs' = [reqs EXCEPT ![i] = Respond(reqs[i], 200)]
          ELSE /\ reqs' = [reqs EXCEPT ![i] = Respond(reqs[i], 500)]
               /\ UNCHANGED comments
    /\ UNCHANGED <<users, tweets, nextId>>

-----------------------------------------------------------------------------
(* DELETE /api/tweets/:id *)

DeleteTweetArrive(max) ==
    \E caller \in DOMAIN users, id \in TweetParams :
        /\ Authenticated(caller)
        /\ Arrive(max, NewReq("deleteTweet", caller, id, "find"))
        /\ UNCHANGED <<users, tweets, comments, nextId>>

DeleteTweetFind(i) ==
    /\ reqs[i].kind = "deleteTweet" /\ reqs[i].pc = "find"
    /\ LET t == CastObjectId(reqs[i].id)
       IN reqs' = [reqs EXCEPT ![i] =
                     IF t \notin DOMAIN tweets
                     THEN Respond(reqs[i], 404)
                     ELSE IF ~IsOwner(TweetDoc(t), reqs[i].caller)
                          THEN Respond(reqs[i], 401)
                          ELSE [reqs[i] EXCEPT !.pc = "deleteComments", !.doc = TweetDoc(t)]]
    /\ UNCHANGED <<users, tweets, comments, nextId>>

\* Comment.deleteMany({ tweet: req.params.id })
CommentsOf(t) == {c \in DOMAIN comments : comments[c].tweet = t}

DeleteTweetComments(i) ==
    /\ reqs[i].kind = "deleteTweet" /\ reqs[i].pc = "deleteComments"
    /\ comments' = Remove(comments, CommentsOf(CastObjectId(reqs[i].id)))
    /\ reqs' = [reqs EXCEPT ![i] = [reqs[i] EXCEPT !.pc = "deleteOne"]]
    /\ UNCHANGED <<users, tweets, nextId>>

DeleteTweetOne(i) ==
    /\ reqs[i].kind = "deleteTweet" /\ reqs[i].pc = "deleteOne"
    /\ tweets' = Remove(tweets, {CastObjectId(reqs[i].id)})
    /\ reqs' = [reqs EXCEPT ![i] = Respond(reqs[i], 200)]
    /\ UNCHANGED <<users, comments, nextId>>

-----------------------------------------------------------------------------
(* DELETE /api/comments/:id *)

DeleteCommentArrive(max) ==
    \E caller \in DOMAIN users, id \in CommentParams :
        /\ Authenticated(caller)
        /\ Arrive(max, NewReq("deleteComment", caller, id, "find"))
        /\ UNCHANGED <<users, tweets, comments, nextId>>

DeleteCommentFind(i) ==
    /\ reqs[i].kind = "deleteComment" /\ reqs[i].pc = "find"
    /\ LET c == CastObjectId(reqs[i].id)
       IN reqs' = [reqs EXCEPT ![i] =
                     IF c \notin DOMAIN comments
                     THEN Respond(reqs[i], 404)
                     ELSE IF ~IsOwner(CommentDoc(c), reqs[i].caller)
                          THEN Respond(reqs[i], 401)
                          ELSE [reqs[i] EXCEPT !.pc = "pull", !.doc = CommentDoc(c)]]
    /\ UNCHANGED <<users, tweets, comments, nextId>>

\* Tweet.findByIdAndUpdate(comment.tweet, { $pull: { comments: comment._id } })
DeleteCommentPull(i) ==
    /\ reqs[i].kind = "deleteComment" /\ reqs[i].pc = "pull"
    /\ LET t == reqs[i].doc.tweet
       IN tweets' = IF t \in DOMAIN tweets
                    THEN [tweets EXCEPT ![t].comments = Without(@, CastObjectId(reqs[i].id))]
                    ELSE tweets
    /\ reqs' = [reqs EXCEPT ![i] = [reqs[i] EXCEPT !.pc = "deleteOne"]]
    /\ UNCHANGED <<users, comments, nextId>>

DeleteCommentOne(i) ==
    /\ reqs[i].kind = "deleteComment" /\ reqs[i].pc = "deleteOne"
    /\ comments' = Remove(comments, {CastObjectId(reqs[i].id)})
    /\ reqs' = [reqs EXCEPT ![i] = Respond(reqs[i], 200)]
    /\ UNCHANGED <<users, tweets, nextId>>

-----------------------------------------------------------------------------
(* POST /api/tweets/:id/comments *)

MaxContent == 280

\* ValidContent without the not().isEmpty() check
ValidContentAdmitsEmpty(len) == len <= MaxContent

\* lengths of the content field a request may carry
ContentLengths == {0, 1, MaxContent + 1}

\* check('content').not().isEmpty(), check('content').isLength({ max: 280 })
ValidContent(len) == len # 0 /\ len <= MaxContent

\* the request carries the token of a registered user; the middleware array
\* is [protect, check, check], so nothing is decided before protect has run
CreateCommentArrive(max) ==
    \E caller \in DOMAIN users, id \in TweetParams, len \in ContentLengths :
        /\ Arrive(max, [NewReq("createComment", caller, id, "protect") EXCEPT !.len = len])
        /\ UNCHANGED <<users, tweets, comments, nextId>>

\* protect resolves the token to the caller's user record (a read of users);
\* the validators and validationResult(req) then run up to the first await
\* of the handler
CreateCommentProtect(i) ==
    /\ reqs[i].kind = "createComment" /\ reqs[i].pc = "protect"
    /\ reqs' = [reqs EXCEPT ![i] =
                  IF ~Authenticated(reqs[i].caller) THEN Respond(reqs[i], 401)
                  ELSE IF ~ValidContent(reqs[i].len) THEN Respond(reqs[i], 400)
                  ELSE [reqs[i] EXCEPT !.pc = "find"]]
    /\ UNCHANGED <<users, tweets, comments, nextId>>

CreateCommentFind(i) ==
    /\ reqs[i].kind = "createComment" /\ reqs[i].pc = "find"
    /\ LET t == CastObjectId(reqs[i].id)
       IN reqs' = [reqs EXCEPT ![i] =
                     IF t \notin DOMAIN tweets
                     THEN Respond(reqs[i], 404)
                     ELSE [reqs[i] EXCEPT !.pc = "saveComment", !.doc = TweetDoc(t)]]
    /\ UNCHANGED <<users, tweets, comments, nextId>>

NewComment(caller, t) == [user |-> caller, tweet |-> t, likes |-> <<>>, v |-> 0]

CreateCommentSave(i) ==
    /\ reqs[i].kind = "createComment" /\ reqs[i].pc = "saveComment"
    /\ comments' = [c \in DOMAIN comments \cup {nextId.comment} |->
                      IF c = nextId.comment
                      THEN NewComment(reqs[i].caller, CastObjectId(reqs[i].id))
                      ELSE comments[c]]
    /\ nextId' = [nextId EXCEPT !.comment = @ + 1]
    /\ reqs' = [reqs EXCEPT ![i] = [reqs[i] EXCEPT !.pc = "saveTweet",
                                                   !.newId = nextId.comment]]
    /\ UNCHANGED <<users, tweets>>

\* tweet.comments.push(comment._id); tweet.save(): an atomic $push that
\* increments __v and fails when the tweet is gone; the answer carries the
\* comment with its author populated (name, username, profilePicture)
CreateCommentSaveTweet(i) ==
    /\ reqs[i].kind = "createComment" /\ reqs[i].pc = "saveTweet"
    /\ LET t == CastObjectId(reqs[i].id)
       IN IF t \in DOMAIN tweets
          THEN /\ tweets' = [tweets EXCEPT ![t].comments = Append(@, reqs[i].newId),
                                           ![t].v = @ + 1]
               /\ reqs' = [reqs EXCEPT ![i] =
                             [Respond(reqs[i], 200) EXCEPT
                                 !.fields = SelectOnly({"name", "username", "profilePicture"})]]
          ELSE /\ reqs' = [reqs EXCEPT ![i] = Respond(reqs[i], 500)]
               /\ UNCHANGED tweets
    /\ UNCHANGED <<users, comments, nextId>>

-----------------------------------------------------------------------------
(* POST /api/tweets *)

\* check('content').not().isEmpty().unless(req.file): content may be empty
\* only when an image was uploaded; check('content').isLength({ max: 280 })
ValidTweet(len, image) == (len # 0 \/ image) /\ len <= MaxContent

\* TweetSchema.content: required (a string of length 0 does not satisfy
\* required) and maxlength 280, applied by save()
SchemaAdmitsContent(len) == len # 0 /\ len <= MaxContent

\* new Tweet({ user, content: req.body.content || '', image })
NewTweet(caller, len, image, time) ==
    [user |-> caller, content |-> len, image |-> image, createdAt |-> time,
     likes |-> <<>>, comments |-> <<>>, v |-> 0]

CreateTweetArrive(max) ==
    \E caller \in DOMAIN users, len \in ContentLengths, image \in BOOLEAN :
        /\ Authenticated(caller)
        /\ Arrive(max, IF ValidTweet(len, image)
                       THEN [NewReq("createTweet", caller, <<0, "lower">>, "save")
                                EXCEPT !.len = len, !.image = image]
                       ELSE Respond([NewReq("createTweet", caller, <<0, "lower">>, "save")
                                EXCEPT !.len = len, !.image = image], 400))
        /\ UNCHANGED <<users, tweets, comments, nextId>>

\* newTweet.save(): the schema is validated, then the document is inserted
\* with createdAt set to the clock, which has not gone back since the last
\* document was created; the answer carries the tweet with its author
\* populated (name, username, profilePicture)
CreateTweetSave(i) ==
    /\ reqs[i].kind = "createTweet" /\ reqs[i].pc = "save"
    /\ IF SchemaAdmitsContent(reqs[i].len)
       THEN \E time \in {nextId.time, nextId.time + 1} :
              /\ tweets' = [t \in DOMAIN tweets \cup {nextId.tweet} |->
                              IF t = nextId.tweet
                              THEN NewTweet(reqs[i].caller, reqs[i].len, reqs[i].image, time)
                              ELSE tweets[t]]
              /\ nextId' = [nextId EXCEPT !.tweet = @ + 1, !.time = time]
              /\ reqs' = [reqs EXCEPT ![i] =
                            [Respond(reqs[i], 201) EXCEPT
                                !.newId = nextId.tweet,
                                !.fields = SelectOnly({"name", "username", "profilePicture"})]]
       ELSE /\ reqs' = [reqs EXCEPT ![i] = Respond(reqs[i], 500)]
            /\ UNCHANGED <<tweets, nextId>>
    /\ UNCHANGED <<users, comments>>

-----------------------------------------------------------------------------
(* GET /api/tweets and GET /api/tweets/timeline *)

\* .limit(20) of the global listing, .limit(50) of the timeline
ListLimit == 20

TimelineLimit == 50

\* the store leaves the order of documents with equal sort keys open: they
\* come in insertion order or against it
TieOrders == {"natural", "reverse"}

Newest(ids) == {t \in ids : \A o \in ids : tweets[o].createdAt <= tweets[t].createdAt}

\* .sort({ createdAt: -1 }) over the documents a query matched
RECURSIVE SortDesc(_, _)
SortDesc(ids, tie) ==
    IF ids = {} THEN << >>
    ELSE LET first == IF tie = "natural"
                      THEN CHOOSE t \in Newest(ids) : \A o \in Newest(ids) : t <= o
                      ELSE CHOOSE t \in Newest(ids) : \A o \in Newest(ids) : o <= t
         IN <<first>> \o SortDesc(ids \ {first}, tie)

\* .populate('user', 'name username profilePicture isVerified') of the
\* documents of a list: the author fields a body with these documents carries
PopulatedAuthor(list) ==
    IF list = << >> THEN {}
    ELSE SelectOnly({"name", "username", "profilePicture", "isVerified"})

\* GET /: public, no parameters
ListArrive(max) ==
    /\ Arrive(max, NewReq("list", 0, <<0, "lower">>, "find"))
    /\ UNCHANGED <<users, tweets, comments, nextId>>

\* Tweet.find().sort({ createdAt: -1 }).limit(20)
ListFind(i) ==
    /\ reqs[i].kind = "list" /\ reqs[i].pc = "find"
    /\ \E tie \in TieOrders :
          reqs' = [reqs EXCEPT ![i] =
                     [Respond(reqs[i], 200) EXCEPT
                         !.result = Limit(SortDesc(DOMAIN tweets, tie), ListLimit),
                         !.fields = PopulatedAuthor(Limit(SortDesc(DOMAIN tweets, tie),
                                                          ListLimit))]]
    /\ UNCHANGED <<users, tweets, comments, nextId>>

TimelineArrive(max) ==
    \E caller \in DOMAIN users :
        /\ Authenticated(caller)
        /\ Arrive(max, NewReq("timeline", caller, <<0, "lower">>, "findUser"))
        /\ UNCHANGED <<users, tweets, comments, nextId>>

\* const currentUser = await User.findById(req.user._id)
TimelineFindUser(i) ==
    /\ reqs[i].kind = "timeline" /\ reqs[i].pc = "findUser"
    /\ reqs' = [reqs EXCEPT ![i] =
                  [reqs[i] EXCEPT !.pc = "find",
                                  !.currentUser = users[reqs[i].caller].following]]
    /\ UNCHANGED <<users, tweets, comments, nextId>>

\* { $or: [{ user: req.user._id }, { user: { $in: currentUser.following } }] }
TimelineMatches(caller, following) ==
    {t \in DOMAIN tweets :
        tweets[t].user = caller \/ IncludesId(following, tweets[t].user)}

TimelineFind(i) ==
    /\ reqs[i].kind = "timeline" /\ reqs[i].pc = "find"
    /\ \E tie \in TieOrders :
          reqs' = [reqs EXCEPT ![i] =
                     LET list == Limit(SortDesc(TimelineMatches(reqs[i].caller,
                                                                reqs[i].currentUser), tie),
                                       TimelineLimit)
                     IN [Respond(reqs[i], 200) EXCEPT
                            !.result = list, !.fields = PopulatedAuthor(list)]]
    /\ UNCHANGED <<users, tweets, comments, nextId>>

\* GET /:id, GET /:id/comments and GET /user/:userId: public
ReadKinds == {"getTweet", "getComments", "userTweets"}

ReadArrive(max) ==
    \E kind \in ReadKinds, id \in TweetParams :
        /\ Arrive(max, NewReq(kind, 0, id, "find"))
        /\ UNCHANGED <<users, tweets, comments, nextId>>

\* Tweet.findById(req.params.id).populate('user', ...)
GetTweetFind(i) ==
    /\ reqs[i].kind = "getTweet" /\ reqs[i].pc = "find"
    /\ LET t == CastObjectId(reqs[i].id)
       IN reqs' = [reqs EXCEPT ![i] =
                     IF t \notin DOMAIN tweets
                     THEN Respond(reqs[i], 404)
                     ELSE [Respond(reqs[i], 200) EXCEPT
                              !.result = <<t>>, !.fields = PopulatedAuthor(<<t>>)]]
    /\ UNCHANGED <<users, tweets, comments, nextId>>

\* the elements of a sequence in the opposite order
Reverse(s) == [k \in 1..Len(s) |-> s[Len(s) + 1 - k]]

\* Comment.find({ tweet: req.params.id }).sort({ createdAt: -1 }).populate(...):
\* comments get their identifiers in the order of their creation
GetCommentsFind(i) ==
    /\ reqs[i].kind = "getComments" /\ reqs[i].pc = "find"
    /\ LET list == Reverse(Ascending(CommentsOf(CastObjectId(reqs[i].id))))
       IN reqs' = [reqs EXCEPT ![i] =
                     [Respond(reqs[i], 200) EXCEPT
                         !.result = list, !.fields = PopulatedAuthor(list)]]
    /\ UNCHANGED <<users, tweets, comments, nextId>>

\* Tweet.find({ user: req.params.userId }).sort({ createdAt: -1 }).populate(...)
UserTweetsFind(i) ==
    /\ reqs[i].kind = "userTweets" /\ reqs[i].pc = "find"
    /\ \E tie \in TieOrders :
          LET list == SortDesc({t \in DOMAIN tweets :
                                   tweets[t].user = CastObjectId(reqs[i].id)}, tie)
          IN reqs' = [reqs EXCEPT ![i] =
                        [Respond(reqs[i], 200) EXCEPT
                            !.result = list, !.fields = PopulatedAuthor(list)]]
    /\ UNCHANGED <<users, tweets, comments, nextId>>

\* two users without edges; each has written tweets, two of them in the
\* same millisecond
InitTimeline ==
    /\ users = [u \in {1, 2} |-> IF u = 1 THEN NewUser("ann", "ann@x")
                                           ELSE NewUser("bob", "bob@x")]
    /\ tweets = [t \in 1..3 |-> NewTweet(IF t = 2 THEN 1 ELSE 2, 1, FALSE,
                                         IF t = 1 THEN 1 ELSE 2)]
    /\ comments = << >>
    /\ nextId = [user |-> 3, tweet |-> 4, comment |-> 1, time |-> 2]
    /\ reqs = << >>

NextTimelineSerial ==
    \/ Quiescent /\ FollowArrive(MaxSerialReq)
    \/ Quiescent /\ TimelineArrive(MaxSerialReq)
    \/ \E i \in 1..Len(reqs) : FollowFindTarget(i)
    \/ \E i \in 1..Len(reqs) : FollowFindCurrent(i)
    \/ \E i \in 1..Len(reqs) : FollowUpdateCurrent(i)
    \/ \E i \in 1..Len(reqs) : FollowUpdateTarget(i)
    \/ \E i \in 1..Len(reqs) : TimelineFindUser(i)
    \/ \E i \in 1..Len(reqs) : TimelineFind(i)

SpecTimelineSerial == InitTimeline /\ [][NextTimelineSerial]_vars

\* how the creation times of the tweets in a store relate to their order of
\* insertion
StampKinds == {"rising", "falling", "equal", "paired", "mixed"}

Stamp(kind, t, n) ==
    CASE kind = "rising"  -> t
      [] kind = "falling" -> n + 1 - t
      [] kind = "equal"   -> 1
      [] kind = "paired"  -> (t + 1) \div 2
      [] kind = "mixed"   -> (t * 7) % 5

\* a store of any size up to MaxTweets
InitListing ==
    \E n \in 0..MaxTweets, kind \in StampKinds :
        /\ users = [u \in {1, 2} |-> IF u = 1 THEN NewUser("ann", "ann@x")
                                               ELSE NewUser("bob", "bob@x")]
        /\ tweets = [t \in 1..n |-> NewTweet(1 + (t % 2), 1, FALSE, Stamp(kind, t, n))]
        /\ comments = << >>
        /\ nextId = [user |-> 3, tweet |-> n + 1, comment |-> 1, time |-> n]
        /\ reqs = << >>

NextListing ==
    \/ ListArrive(MaxListReq)
    \/ \E i \in 1..Len(reqs) : ListFind(i)

SpecListing == InitListing /\ [][NextListing]_vars

-----------------------------------------------------------------------------
(* Specifications of the tweets and comments routers *)

\* two users registered; user 1 has posted tweet 1, user 2 has commented on
\* it, then user 1 and user 2 have liked the tweet
InitContent ==
    /\ users = [u \in {1, 2} |-> IF u = 1 THEN NewUser("ann", "ann@x")
                                           ELSE NewUser("bob", "bob@x")]
    /\ tweets = [t \in {1} |-> [NewTweet(1, 1, FALSE, 1) EXCEPT
                                    !.likes = <<2, 1>>, !.comments = <<1>>, !.v = 3]]
    /\ comments = [c \in {1} |-> NewComment(2, 1)]
    /\ nextId = [user |-> 3, tweet |-> 2, comment |-> 2, time |-> 1]
    /\ reqs = << >>

ContentStep ==
    \/ \E i \in 1..Len(reqs) : LikeTweetFind(i)
    \/ \E i \in 1..Len(reqs) : LikeTweetSave(i)
    \/ \E i \in 1..Len(reqs) : LikeCommentFind(i)
    \/ \E i \in 1..Len(reqs) : LikeCommentSave(i)
    \/ \E i \in 1..Len(reqs) : DeleteTweetFind(i)
    \/ \E i \in 1..Len(reqs) : DeleteTweetComments(i)
    \/ \E i \in 1..Len(reqs) : DeleteTweetOne(i)
    \/ \E i \in 1..Len(reqs) : DeleteCommentFind(i)
    \/ \E i \in 1..Len(reqs) : DeleteCommentPull(i)
    \/ \E i \in 1..Len(reqs) : DeleteCommentOne(i)
    \/ \E i \in 1..Len(reqs) : CreateCommentProtect(i)
    \/ \E i \in 1..Len(reqs) : CreateCommentFind(i)
    \/ \E i \in 1..Len(reqs) : CreateCommentSave(i)
    \/ \E i \in 1..Len(reqs) : CreateCommentSaveTweet(i)

ContentArrive(max) ==
    \/ LikeTweetArrive(max)
    \/ LikeCommentArrive(max)
    \/ DeleteTweetArrive(max)
    \/ DeleteCommentArrive(max)
    \/ CreateCommentArrive(max)

NextContent == ContentArrive(MaxContentReq) \/ ContentStep

NextContentSerial == (Quiescent /\ ContentArrive(MaxSerialReq)) \/ ContentStep

SpecContent == InitContent /\ [][NextContent]_vars

SpecContentSerial == InitContent /\ [][NextContentSerial]_vars

NextTweets ==
    \/ CreateTweetArrive(MaxContentReq)
    \/ \E i \in 1..Len(reqs) : CreateTweetSave(i)

SpecTweets == InitContent /\ [][NextTweets]_vars

\* every endpoint whose answer carries user data
NextBodies ==
    \/ RegisterArrive(MaxBodyReq)
    \/ LoginArrive(MaxBodyReq)
    \/ UsersGetArrive(MaxBodyReq)
    \/ ProfileArrive(MaxBodyReq, {{}, ProfileFields})
    \/ CreateTweetArrive(MaxBodyReq)
    \/ CreateCommentArrive(MaxBodyReq)
    \/ ListArrive(MaxBodyReq)
    \/ TimelineArrive(MaxBodyReq)
    \/ ReadArrive(MaxBodyReq)
    \/ \E i \in 1..Len(reqs) : RegisterFindEmail(i)
    \/ \E i \in 1..Len(reqs) : RegisterFindUsername(i)
    \/ \E i \in 1..Len(reqs) : RegisterSave(i)
    \/ \E i \in 1..Len(reqs) : LoginFindEmail(i)
    \/ \E i \in 1..Len(reqs) : LoginMatch(i)
    \/ \E i \in 1..Len(reqs) : UsersGetStep(i)
    \/ \E i \in 1..Len(reqs) : ProfileUpdate(i)
    \/ \E i \in 1..Len(reqs) : CreateTweetSave(i)
    \/ \E i \in 1..Len(reqs) : CreateCommentProtect(i)
    \/ \E i \in 1..Len(reqs) : CreateCommentFind(i)
    \/ \E i \in 1..Len(reqs) : CreateCommentSave(i)
    \/ \E i \in 1..Len(reqs) : CreateCommentSaveTweet(i)
    \/ \E i \in 1..Len(reqs) : ListFind(i)
    \/ \E i \in 1..Len(reqs) : TimelineFindUser(i)
    \/ \E i \in 1..Len(reqs) : TimelineFind(i)
    \/ \E i \in 1..Len(reqs) : GetTweetFind(i)
    \/ \E i \in 1..Len(reqs) : GetCommentsFind(i)
    \/ \E i \in 1..Len(reqs) : UserTweetsFind(i)

\* one registered user with a tweet and a comment; the second handle is free
InitBodies ==
    /\ users = [u \in {1} |-> NewUser("ann", "ann@x")]
    /\ tweets = [t \in {1} |-> [NewTweet(1, 1, FALSE, 1) EXCEPT !.comments = <<1>>, !.v = 1]]
    /\ comments = [c \in {1} |-> NewComment(1, 1)]
    /\ nextId = [user |-> 2, tweet |-> 2, comment |-> 2, time |-> 1]
    /\ reqs = << >>

SpecBodies == InitBodies /\ [][NextBodies]_vars

-----------------------------------------------------------------------------
(* The follow graph *)

Follows(a, b) == b \in Range(users[a].following)
FollowedBy(b, a) == a \in Range(users[b].followers)

FollowOf(r, a, b) ==
    r.kind = "follow" /\ r.caller = a /\ CastObjectId(r.id) = b

\* C1: whenever no follow/unfollow request is in flight, B is in A.following
\* exactly when A is in B.followers, for all users A and B.
EdgeSymmetryAtQuiescence ==
    Quiescent =>
        \A a \in DOMAIN users, b \in DOMAIN users : Follows(a, b) <=> FollowedBy(b, a)

\* C2: from the state with no edge, one follow(A,B) request run alone leaves B
\* in A.following and A in B.followers, and a second follow(A,B) request run
\* alone puts both edge sequences back to their original contents.
FollowIsToggle ==
    \A a \in DOMAIN users, b \in DOMAIN users :
        (a # b /\ Len(reqs) >= 1 /\ FollowOf(reqs[1], a, b) /\ Quiescent) =>
            /\ Len(reqs) = 1 => Follows(a, b) /\ FollowedBy(b, a)
            /\ (Len(reqs) = 2 /\ FollowOf(reqs[2], a, b)) =>
                   /\ users[a].following = <<>>
                   /\ users[b].followers = <<>>

\* C3: no user identifier occurs twice in a following or a followers sequence.
NoDuplicateEdges ==
    \A a \in DOMAIN users, b \in DOMAIN users :
        /\ Count(users[a].following, b) <= 1
        /\ Count(users[a].followers, b) <= 1

\* C4: a follow request whose :id resolves to the caller's own record is
\* answered 400 at once, so it never reaches a store write.
SelfFollowRejected ==
    \A i \in 1..Len(reqs) :
        FollowOf(reqs[i], reqs[i].caller, reqs[i].caller) =>
            reqs[i].pc = "done" /\ reqs[i].status = 400

\* C5: no user is a member of its own following or followers sequence.
NoSelfEdges ==
    \A a \in DOMAIN users : ~Follows(a, a) /\ ~FollowedBy(a, a)

\* request i is at its second write, after a first write that followed
\* (pushed B onto A.following) from a state without the edge on either side
SecondWriteOfFollow(i) ==
    /\ reqs[i].kind = "follow" /\ reqs[i].pc = "updateTarget"
    /\ ~AlreadyFollowing(reqs[i])
    /\ ~IncludesId(reqs[i].currentUser, CastObjectId(reqs[i].id))
    /\ ~FollowedBy(CastObjectId(reqs[i].id), reqs[i].caller)

\* request i is at its second write, after a first write that unfollowed
\* (pulled B from A.following) from a state with the edge on both sides
SecondWriteOfUnfollow(i) ==
    /\ reqs[i].kind = "follow" /\ reqs[i].pc = "updateTarget"
    /\ AlreadyFollowing(reqs[i])
    /\ FollowedBy(CastObjectId(reqs[i].id), reqs[i].caller)

-----------------------------------------------------------------------------
(* Likes *)

LikeKinds == {"likeTweet", "likeComment"}

\* the likes of the document a like request names, as stored now
StoredLikes(r) ==
    IF r.kind = "likeTweet" THEN tweets[CastObjectId(r.id)].likes
    ELSE comments[CastObjectId(r.id)].likes

SameToggle(r1, r2) ==
    /\ r1.kind \in LikeKinds /\ r2.kind = r1.kind
    /\ r2.caller = r1.caller /\ r2.id = r1.id
    /\ r1.status = 200 /\ r2.status = 200

NoDuplicateLikes ==
    /\ \A t \in DOMAIN tweets, u \in DOMAIN users : Count(tweets[t].likes, u) <= 1
    /\ \A c \in DOMAIN comments, u \in DOMAIN users : Count(comments[c].likes, u) <= 1

\* two toggles by one caller on one comment both loaded it (not yet liked)
\* before either saved; both have ended
RacingTogglesDone ==
    \E i \in 1..Len(reqs), j \in 1..Len(reqs) :
        /\ i # j /\ reqs[i].kind = "likeComment" /\ reqs[j].kind = "likeComment"
        /\ reqs[i].caller = reqs[j].caller /\ reqs[i].id = reqs[j].id
        /\ reqs[i].doc.v = reqs[j].doc.v /\ reqs[i].doc.likes = <<>>
        /\ reqs[i].status = 200 /\ reqs[j].status = 500

\* request i is a like toggle by v on the tweet (kind "likeTweet") or comment
\* (kind "likeComment") d, and this step is its save, answered 200
CompletesToggle(i, kind, d, v) ==
    /\ reqs[i].kind = kind /\ reqs[i].pc = "save"
    /\ reqs[i].caller = v /\ CastObjectId(reqs[i].id) = d
    /\ reqs'[i] = Respond(reqs[i], 200)

\* v's membership in the likes of a document changes in a step only when the
\* step completes a toggle by v on that document, and then it flips
OnlyOwnToggleChanges(kind, d, before, after) ==
    \A v \in DOMAIN users :
        /\ Count(after, v) # Count(before, v) =>
              \E i \in 1..Len(reqs) : CompletesToggle(i, kind, d, v)
        /\ (\E i \in 1..Len(reqs) : CompletesToggle(i, kind, d, v)) =>
              Count(after, v) = 1 - Count(before, v)

\* C21: a like toggle that completes with 200 adds or removes its caller
\* only: in every step, the membership of a user V in the likes of a tweet or
\* comment changes exactly when the step completes a toggle by V on that
\* document, whatever other toggles have loaded the document meanwhile; so no
\* completed like by V is lost to another user's write.
ToggleAffectsOnlyCaller ==
    [][/\ \A t \in DOMAIN tweets \cap DOMAIN tweets' :
             OnlyOwnToggleChanges("likeTweet", t, tweets[t].likes, tweets'[t].likes)
       /\ \A c \in DOMAIN comments \cap DOMAIN comments' :
             OnlyOwnToggleChanges("likeComment", c, comments[c].likes, comments'[c].likes)]_vars

\* toggles by two users loaded the same version of one document, with the
\* same likes, one of them to unlike it; the unlike saved first and answered
\* 200, and the other was refused
RacingTogglesOfTwoUsersDone ==
    \E i \in 1..Len(reqs), j \in 1..Len(reqs) :
        /\ reqs[i].kind \in LikeKinds /\ reqs[j].kind = reqs[i].kind
        /\ reqs[i].id = reqs[j].id /\ reqs[i].caller # reqs[j].caller
        /\ reqs[i].doc.v = reqs[j].doc.v
        /\ IncludesId(reqs[i].doc.likes, reqs[i].caller)
        /\ IncludesId(reqs[j].doc.likes, reqs[i].caller)
        /\ reqs[i].status = 200 /\ reqs[j].status = 500

-----------------------------------------------------------------------------
(* Deletion *)

\* C8: once a DELETE /tweets/:id has answered 200, the tweet is gone and no
\* comment whose tweet reference is that tweet is in the store.
TweetDeleteCascades ==
    \A i \in 1..Len(reqs) :
        (reqs[i].kind = "deleteTweet" /\ reqs[i].status = 200) =>
            /\ CastObjectId(reqs[i].id) \notin DOMAIN tweets
            /\ CommentsOf(CastObjectId(reqs[i].id)) = {}

\* request r asks to delete an existing tweet or comment that r's caller did
\* not write
NonAuthorDelete(r) ==
    \/ /\ r.kind = "deleteTweet"
       /\ CastObjectId(r.id) \in DOMAIN tweets
       /\ tweets[CastObjectId(r.id)].user # r.caller
    \/ /\ r.kind = "deleteComment"
       /\ CastObjectId(r.id) \in DOMAIN comments
       /\ comments[CastObjectId(r.id)].user # r.caller

\* C9: every step of a DELETE request on a tweet or comment by a user who is
\* not its author answers 401 and leaves every tweet and comment as it was.
OnlyAuthorDeletes ==
    [][\A i \in 1..Len(reqs) :
          (NonAuthorDelete(reqs[i]) /\ reqs'[i] # reqs[i]) =>
              /\ reqs'[i] = Respond(reqs[i], 401)
              /\ tweets' = tweets
              /\ comments' = comments]_vars

\* a tweet delete and a comment delete by non-authors were both refused, and
\* the tweet and its comment are still there
NonAuthorDeletesRefused ==
    \E i \in 1..Len(reqs), j \in 1..Len(reqs) :
        /\ reqs[i].kind = "deleteTweet" /\ reqs[i].status = 401
        /\ reqs[j].kind = "deleteComment" /\ reqs[j].status = 401
        /\ tweets[1].comments = <<1>> /\ comments[1].tweet = 1

-----------------------------------------------------------------------------
(* Registration *)

\* some user record other than the one request r created holds r's username
\* or r's email
HeldByAnother(r) ==
    \E u \in DOMAIN users :
        /\ u # r.newId
        /\ users[u].username = r.username \/ users[u].email = r.email

\* C10: a register request whose username or email is that of an existing
\* user has failed with status 400 and created no record, and no two user
\* records share a username or an email, whatever the interleaving.
RegisterKeepsHandlesUnique ==
    /\ \A i \in 1..Len(reqs) :
          (reqs[i].kind = "register" /\ reqs[i].pc = "done" /\ HeldByAnother(reqs[i])) =>
              reqs[i].status = 400 /\ reqs[i].newId = 0
    /\ \A u \in DOMAIN users, w \in DOMAIN users :
          u # w => /\ users[u].username # users[w].username
                   /\ users[u].email # users[w].email

-----------------------------------------------------------------------------
(* Tweet creation *)

EmptyTweetRequest(r, image) ==
    r.kind = "createTweet" /\ r.pc = "done" /\ r.len = 0 /\ r.image = image

\* C11: a POST /tweets with empty content and no image has answered 400 and
\* created no tweet; one with empty content and an uploaded image has answered
\* 201 and created one tweet, which has the image and empty content.
EmptyContentNeedsMedia ==
    \A i \in 1..Len(reqs) :
        /\ EmptyTweetRequest(reqs[i], FALSE) =>
              reqs[i].status = 400 /\ reqs[i].newId = 0
        /\ EmptyTweetRequest(reqs[i], TRUE) =>
              /\ reqs[i].status = 201
              /\ reqs[i].newId \in DOMAIN tweets
              /\ tweets[reqs[i].newId].content = 0
              /\ tweets[reqs[i].newId].image

-----------------------------------------------------------------------------
(* Listings *)

Answered(r, kind) == r.kind = kind /\ r.pc = "done" /\ r.status = 200

\* the result is in descending creation-time order and names no tweet twice
Descending(result) ==
    \A a, b \in 1..Len(result) :
        a < b => /\ tweets[result[b]].createdAt <= tweets[result[a]].createdAt
                 /\ result[a] # result[b]

\* the result is made of the n most recent tweets of ids
MostRecentOf(result, ids, n) ==
    /\ Len(result) = (IF Cardinality(ids) < n THEN Cardinality(ids) ELSE n)
    /\ Range(result) \subseteq ids
    /\ \A t \in ids \ Range(result), k \in 1..Len(result) :
          tweets[t].createdAt <= tweets[result[k]].createdAt

\* C18: a global listing holds at most 20 tweets, in descending creation-time
\* order, and they are the most recently created tweets of the store: all of
\* them when the store has at most 20, else 20 of them with no tweet left out
\* that is newer than one returned.
ListingIsNewestTwenty ==
    \A i \in 1..Len(reqs) :
        Answered(reqs[i], "list") =>
            /\ Len(reqs[i].result) <= ListLimit
            /\ Descending(reqs[i].result)
            /\ MostRecentOf(reqs[i].result, DOMAIN tweets, ListLimit)

\* a listing was cut at 20 between two tweets of the same creation time
ListingCut ==
    \E i \in 1..Len(reqs) :
        /\ Answered(reqs[i], "list")
        /\ Len(reqs[i].result) = ListLimit
        /\ \E t \in DOMAIN tweets \ Range(reqs[i].result) :
              tweets[t].createdAt = tweets[reqs[i].result[ListLimit]].createdAt

\* the two follow calls of U on B that came before a timeline request of U
FollowedThenUnfollowed(i, j, k) ==
    /\ i < j /\ j < k
    /\ Answered(reqs[i], "follow") /\ Answered(reqs[j], "follow")
    /\ Answered(reqs[k], "timeline")
    /\ reqs[i].caller = reqs[k].caller /\ reqs[j].caller = reqs[k].caller
    /\ CastObjectId(reqs[i].id) = CastObjectId(reqs[j].id)
    /\ \A l \in 1..(k - 1) :
          (l # i /\ l # j) =>
              ~(reqs[l].kind = "follow" /\ reqs[l].caller = reqs[k].caller
                  /\ CastObjectId(reqs[l].id) = CastObjectId(reqs[i].id))

\* C12: a timeline answered to U holds at most 50 tweets in descending
\* creation-time order, each by U or by a member of U.following as the request
\* read it, and they are the 50 most recent such tweets; and once U has
\* followed and then unfollowed B (two completed follow calls from no edge), a
\* later timeline of U holds no tweet of B.
TimelineFollowsTheGraph ==
    /\ \A k \in 1..Len(reqs) :
          Answered(reqs[k], "timeline") =>
              /\ Len(reqs[k].result) <= TimelineLimit
              /\ Descending(reqs[k].result)
              /\ MostRecentOf(reqs[k].result,
                              TimelineMatches(reqs[k].caller, reqs[k].currentUser),
                              TimelineLimit)
    /\ \A i, j, k \in 1..Len(reqs) :
          FollowedThenUnfollowed(i, j, k) =>
              \A n \in 1..Len(reqs[k].result) :
                  tweets[reqs[k].result[n]].user # CastObjectId(reqs[i].id)

-----------------------------------------------------------------------------
(* Suggestions *)

SuggestionsRequest(r) == r.path = <<"suggestions">> /\ r.pc = "done"

\* C13: a GET /users/suggestions request by an authenticated caller, once the
\* users router has handled it, has answered 200 with at most 5 users, none of
\* them the caller and none of them in the caller's following.
SuggestionsAnswered ==
    \A i \in 1..Len(reqs) :
        SuggestionsRequest(reqs[i]) =>
            /\ reqs[i].status = 200
            /\ Len(reqs[i].result) <= SuggestionsLimit
            /\ \A k \in 1..Len(reqs[i].result) :
                  /\ reqs[i].result[k] # reqs[i].caller
                  /\ ~IncludesId(users[reqs[i].caller].following, reqs[i].result[k])

-----------------------------------------------------------------------------
(* Comments and their tweets *)

\* C14: when no request is in flight, the comments array of every tweet T
\* names exactly the existing comments whose tweet is T, each once.
BackReferencesAgree ==
    Quiescent =>
        \A t \in DOMAIN tweets, c \in 1..nextId.comment :
            Count(tweets[t].comments, c) =
                (IF c \in DOMAIN comments /\ comments[c].tweet = t THEN 1 ELSE 0)

\* C20: when no request is in flight, the tweet of every comment exists.
NoOrphanComments ==
    Quiescent => \A c \in DOMAIN comments : comments[c].tweet \in DOMAIN tweets

-----------------------------------------------------------------------------
(* Refusals of comment creation *)

BadContent(r) ==
    r.kind = "createComment" /\ (r.len = 0 \/ r.len > MaxContent)

\* a comment creation with valid content looks for a tweet that is not there
FindsNoTweet(r) ==
    /\ r.kind = "createComment" /\ ~BadContent(r) /\ r.pc = "find"
    /\ CastObjectId(r.id) \notin DOMAIN tweets

\* the step of request i that looks up the missing tweet answers 404 and
\* leaves comments and tweets as they are
MissingTweetRefused(i) ==
    (FindsNoTweet(reqs[i]) /\ reqs'[i] # reqs[i]) =>
        /\ reqs'[i] = Respond(reqs[i], 404)
        /\ comments' = comments
        /\ tweets' = tweets

\* C15: POST /tweets/:id/comments with valid content and an :id that names no
\* existing tweet answers 404, creates no comment and changes no tweet; with
\* empty content or content longer than 280 characters its only step is the
\* one that resolves the caller (a read of the caller's user record) and then
\* answers 400: no tweet or comment is read and nothing is written.
CommentCreationRefusals ==
    [][\A i \in 1..Len(reqs) :
          /\ MissingTweetRefused(i)
          /\ (BadContent(reqs[i]) /\ reqs'[i] # reqs[i]) =>
                /\ reqs[i].pc = "protect"
                /\ reqs'[i] = Respond(reqs[i], 400)
                /\ UNCHANGED <<users, tweets, comments, nextId>>]_vars

\* both refusals have happened: a 404 for a missing tweet and a 400 for bad
\* content, with the store as it was before the requests
CommentCreationRefused ==
    /\ \E i \in 1..Len(reqs) :
          /\ reqs[i].kind = "createComment" /\ ~BadContent(reqs[i])
          /\ reqs[i].status = 404
    /\ \E i \in 1..Len(reqs) : BadContent(reqs[i]) /\ reqs[i].status = 400
    /\ DOMAIN comments = {1} /\ tweets[1].comments = <<1>>

\* C15 as stated: the 404 as above, and a request with empty or too long
\* content is answered 400 before any store read or write, that is, without
\* a step of its own between its arrival and its answer.
CommentCreationRefusalsBeforeAnyRead ==
    [][\A i \in 1..Len(reqs) :
          /\ MissingTweetRefused(i)
          /\ BadContent(reqs[i]) => (reqs[i].pc = "done" /\ reqs[i].status = 400)]_vars

-----------------------------------------------------------------------------
(* Profile update *)

\* the caller's record with every supplied field set to the supplied value
\* and everything else as it was
Patched(user, patch) ==
    [user EXCEPT !.profile =
        [f \in ProfileFields |-> IF f \in DOMAIN patch THEN patch[f] ELSE @[f]]]

\* C17: the step that applies a PUT /users request sets, on the caller's
\* record, exactly the supplied fields to the supplied values; unsupplied
\* fields, the caller's following, followers, username and email, and every
\* other user's record stay as they were.
ProfileUpdateIsPartialPatch ==
    [][\A i \in 1..Len(reqs) :
          (reqs[i].kind = "put" /\ reqs'[i] # reqs[i]) =>
              users' = [users EXCEPT ![reqs[i].caller] = Patched(@, reqs[i].patch)]]_vars

-----------------------------------------------------------------------------
(* Response bodies *)

\* C16: no response body of any request carries the password field of a user
\* record.
PasswordNeverDisclosed ==
    \A i \in 1..Len(reqs) : "password" \notin reqs[i].fields

\* a profile read through select('-password') and a registration have both
\* been answered with user data
UserDataAnswered ==
    /\ \E i \in 1..Len(reqs) :
          reqs[i].kind \in {"me", "username", "put"} /\ "email" \in reqs[i].fields
    /\ \E i \in 1..Len(reqs) :
          reqs[i].kind \in {"register", "login"} /\ "email" \in reqs[i].fields

====
